---------------------------- MODULE Spec2Model ----------------------------
(***************************************************************************)
(* Huhnitor: a serial monitor.  The model covers the three execution       *)
(* contexts of src/main.rs and src/app.rs:                                 *)
(*   - the render loop  App::run   (draw, try_recv, poll/read one key),    *)
(*   - the orchestrator monitor()  (select! over device read / input_rx),  *)
(*   - the two unbounded channels between them.                            *)
(* Text is a sequence of characters; a character is a one-element string.  *)
(* Time is counted in whole seconds (Instant::now() is the variable now).  *)
(***************************************************************************)
EXTENDS Integers, Sequences, FiniteSets, TLC

(***************************************************************************)
(* Bounds of the model.                                                    *)
(***************************************************************************)
MaxSubmit == 2      \* Enter presses explored
MaxInts   == 4      \* Ctrl-C presses explored
MaxTime   == 5      \* seconds explored
MaxDev    == 2      \* device lines explored
MaxBuf    == 1      \* bytes of a device line before its line feed
MaxUps    == 4      \* Up presses counted after an Enter

(***************************************************************************)
(* Program constants.                                                      *)
(***************************************************************************)
TrackerCap == 3     \* self.0.len() == 3
Window     == 3     \* Duration::new(3, 0)
ScrollPad  == 2     \* lines.len() - box_height + 2

CR == "\r"
LF == "\n"
SP == " "

(***************************************************************************)
(* Text helpers: str::to_uppercase, str::trim, str::starts_with, and the   *)
(* byte view of a String (len(), insert() take byte offsets).              *)
(***************************************************************************)
Upper(c) ==
    CASE c = "a" -> "A" [] c = "b" -> "B" [] c = "c" -> "C" [] c = "e" -> "E"
      [] c = "h" -> "H" [] c = "i" -> "I" [] c = "l" -> "L" [] c = "n" -> "N"
      [] c = "o" -> "O" [] c = "p" -> "P" [] c = "r" -> "R" [] c = "s" -> "S"
      [] c = "t" -> "T" [] c = "u" -> "U" [] c = "x" -> "X"
      [] c = "é" -> "É"
      [] OTHER -> c

to_uppercase(s) == [i \in 1..Len(s) |-> Upper(s[i])]

IsSpace(c) == c \in {SP, CR, LF, "\t"}

RECURSIVE trim_start(_)
trim_start(s) ==
    IF s # <<>> /\ IsSpace(Head(s)) THEN trim_start(Tail(s)) ELSE s

RECURSIVE trim_end(_)
trim_end(s) ==
    IF s # <<>> /\ IsSpace(s[Len(s)]) THEN trim_end(SubSeq(s, 1, Len(s) - 1)) ELSE s

trim(s) == trim_end(trim_start(s))

starts_with(s, p) == Len(s) >= Len(p) /\ SubSeq(s, 1, Len(p)) = p

\* UTF-8 width of a character.
Width(c) == IF c \in {"é", "É"} THEN 2 ELSE 1

RECURSIVE ByteLen(_)
ByteLen(s) == IF s = <<>> THEN 0 ELSE Width(Head(s)) + ByteLen(Tail(s))

\* The number of characters that end at byte offset b, or -1 when b is not a
\* character boundary of s (String::is_char_boundary).
CharsBefore(s, b) ==
    IF \E k \in 0..Len(s) : ByteLen(SubSeq(s, 1, k)) = b
    THEN CHOOSE k \in 0..Len(s) : ByteLen(SubSeq(s, 1, k)) = b
    ELSE -1

Take(s, n) == SubSeq(s, 1, IF n < Len(s) THEN n ELSE Len(s))
Skip(s, n) == SubSeq(s, n + 1, Len(s))

Max(a, b) == IF a >= b THEN a ELSE b
Min(a, b) == IF a <= b THEN a ELSE b
Clamp(x, lo, hi) == Max(lo, Min(x, hi))

EXIT  == <<"E", "X", "I", "T">>
CLEAR == <<"C", "L", "E", "A", "R">>
HUHN  == <<"H", "U", "H", "N">>
STOP  == <<"s", "t", "o", "p", LF>>
CRLF  == <<CR, LF>>


(***************************************************************************)
(* State.                                                                  *)
(*   App (src/app.rs:113-130) and the locals of App::run                   *)
(*   (src/app.rs:222-227); the ScrollbarState only mirrors scroll_pos and  *)
(*   the scrollback length and is left out.                                *)
(***************************************************************************)
VARIABLES
    input,          \* App.input
    output,         \* App.output, the scrollback
    hist,           \* App.cmd_history.hist
    index,          \* App.cmd_history.index (0-based, as in the source)
    manual_scroll,  \* App.manual_scroll
    scroll_pos,     \* App.scroll_pos
    cursor_pos,     \* App.cursor_pos (a byte offset into input)
    input_mode,     \* App.input_mode: "Insert" | "Normal"
    spam_handler,   \* InterruptHandler's VecDeque, front first
    res,            \* run's res: "Ok" | "Err"
    appPc,          \* where run is: "setup" | "draw" | "recv" | "poll" |
                    \* "done" (returned through shutdown) | "failed" (returned
                    \* by ?) | "panicked"
    raw,            \* terminal is in raw mode
    alt,            \* terminal shows the alternate screen
    box_height,     \* chunks[0].height of the last frame
    inCh,           \* input channel  (input_tx -> input_rx), oldest first
    outCh,          \* output channel (output_tx -> output_rx), oldest first
    monPc,          \* monitor's session loop: "run" | "done" | "panicked"
    buf,            \* monitor's buf: bytes of the device line read so far
    devLines,       \* number of device lines read
    monLog,         \* what the loop did with each input-channel message
    errLog,         \* messages given to error!
    monEnd,         \* history: how the session loop ended: "" | "eof" | "err" |
                    \* "exit" | "panic"
    outLog,         \* history: each line sent on the output channel
    readN,          \* bytes read by the read_until call in progress (the
                    \* count its future keeps, lost when select! drops it)
    devEof,         \* the device's stream has ended
    devLog,         \* history: every byte read from the device, in order
    rxPc,           \* input::receiver: "wait" (in readline) | "done" |
                    \* "panicked"
    exitspam,       \* input::receiver's exitspam VecDeque, front first
    rxInts,         \* history: time of each Ctrl-C pressed at the receiver's
                    \* prompt, whether or not readline was still there
    now,            \* Instant::now(), in seconds
    lastEv,         \* history: the last step of the render loop
    ints,           \* history: each Ctrl-C handled, [t, fired]
    submitted,      \* history: each text submitted with Enter
    ups,            \* history: Up presses since the last Enter (-1 after a Down)
    sentLog         \* history: each message sent on the input channel

appVars  == <<input, output, hist, index, manual_scroll, scroll_pos, cursor_pos,
              input_mode, spam_handler, res, appPc, raw, alt, box_height>>
devVars  == <<readN, devEof, devLog>>
monVars  == <<monPc, buf, devLines, monLog, errLog, monEnd, outLog, devVars>>
rxVars   == <<rxPc, exitspam, rxInts>>
histVars == <<lastEv, ints, submitted, ups, sentLog>>
vars     == <<appVars, inCh, outCh, monVars, rxVars, now, histVars>>

(***************************************************************************)
(* InterruptHandler::interrupted, with t the value of Instant::now().      *)
(* push_front puts at the head, pop_back takes the last element.           *)
(***************************************************************************)
interrupted_newest(q, t) ==
    IF Len(q) = TrackerCap
    THEN IF t - q[1] <= Window
         THEN [ret |-> TRUE,  q |-> SubSeq(q, 1, Len(q) - 1)]
         ELSE [ret |-> FALSE, q |-> <<t>> \o SubSeq(q, 1, Len(q) - 1)]
    ELSE [ret |-> FALSE, q |-> <<t>> \o q]

interrupted_reset(q, t) ==
    IF Len(q) = TrackerCap
    THEN IF t - q[Len(q)] <= Window
         THEN [ret |-> TRUE,  q |-> SubSeq(q, 1, Len(q) - 1)]
         ELSE [ret |-> FALSE, q |-> <<t>>]
    ELSE [ret |-> FALSE, q |-> <<t>> \o q]

interrupted(q, t) ==
    IF Len(q) = TrackerCap
    THEN LET time == q[Len(q)]
             rest == SubSeq(q, 1, Len(q) - 1)
         IN  IF t - time <= Window
             THEN [ret |-> TRUE,  q |-> rest]
             ELSE [ret |-> FALSE, q |-> <<t>> \o rest]
    ELSE [ret |-> FALSE, q |-> <<t>> \o q]

(***************************************************************************)
(* History.  The index is 0-based; hist[i + 1] is the source's hist[i].    *)
(***************************************************************************)
prev_cmd_wrap(h, i) == IF i > 0 THEN i - 1 ELSE Len(h) - 1

prev_cmd(h, i) == IF i > 0 THEN i - 1 ELSE i

next_cmd(h, i) == IF i < Len(h) - 1 THEN i + 1 ELSE i

add_at_end(h, entry) == Append(h, entry)

add(h, entry) ==
    SubSeq(h, 1, Len(h) - 1) \o <<entry>> \o SubSeq(h, Len(h), Len(h))

reset(h) == Len(h) - 1

(***************************************************************************)
(* Editing.  cursor_pos and String::len() count bytes; chars().take and    *)
(* chars().skip count characters.                                          *)
(***************************************************************************)
cursor_left(cp, s)  == Clamp(Max(cp - 1, 0), 0, ByteLen(s))
cursor_right(cp, s) == Clamp(cp + 1, 0, ByteLen(s))

\* String::insert(idx, c) panics unless idx is a character boundary.
insert_ok(s, idx) == CharsBefore(s, idx) # -1
insert(s, idx, c) ==
    LET k == CharsBefore(s, idx) IN Take(s, k) \o <<c>> \o Skip(s, k)

remove_char(s, cp) == Take(s, cp - 1) \o Skip(s, cp)

(***************************************************************************)
(* Scrolling.                                                              *)
(***************************************************************************)
scroll_up_keep(pos, manual) == [pos |-> Max(pos - 1, 0), manual |-> manual]

scroll_up(pos, manual) == [pos |-> Max(pos - 1, 0), manual |-> TRUE]

scroll_down(pos, manual) == [pos |-> pos + 1, manual |-> manual]

\* visible_len of App::ui for len lines and a message box h rows high.
visible_len(len, h) == Clamp(len - h + ScrollPad, 0, len)

ui_scroll_strict(pos, manual, len, h) ==
    IF ~manual THEN [pos |-> visible_len(len, h), manual |-> FALSE]
    ELSE IF pos > visible_len(len, h) THEN [pos |-> pos, manual |-> FALSE]
    ELSE [pos |-> pos, manual |-> TRUE]

\* The "Set scroll position" block of App::ui.
ui_scroll(pos, manual, len, h) ==
    IF ~manual THEN [pos |-> visible_len(len, h), manual |-> FALSE]
    ELSE IF pos >= visible_len(len, h) THEN [pos |-> pos, manual |-> FALSE]
    ELSE [pos |-> pos, manual |-> TRUE]

(***************************************************************************)
(* Channels.  A message of the input channel is the String sent; src and   *)
(* line are history fields (who sent it, and the text it was built from).  *)
(* A channel is closed for its sender once the receiving half is dropped:  *)
(* input_rx when monitor leaves its loop and returns, output_rx when the   *)
(* task running App::run ends.                                             *)
(***************************************************************************)
Msg(text, src, line) == [text |-> text, src |-> src, line |-> line]

InClosed  == monPc # "run"
OutClosed == appPc \in {"done", "failed", "panicked"}

\* lastEv: the step's name, and input_mode, manual_scroll and the history
\* index as they were before it.
NoEv == [code |-> "None", mode |-> "Insert", manual0 |-> FALSE, index0 |-> 0]
Ev(code) == [code |-> code, mode |-> input_mode, manual0 |-> manual_scroll,
             index0 |-> index]

Init ==
    /\ input = <<>>
    /\ output = <<>>
    /\ hist = << <<>> >>
    /\ index = 0
    /\ manual_scroll = FALSE
    /\ scroll_pos = 0
    /\ cursor_pos = 0
    /\ input_mode = "Insert"
    /\ spam_handler = <<>>
    /\ res = "Ok"
    /\ appPc = "setup"
    /\ raw = FALSE
    /\ alt = FALSE
    /\ box_height = 0
    /\ inCh = <<>>
    /\ outCh = <<>>
    /\ monPc = "run"
    /\ buf = <<>>
    /\ devLines = 0
    /\ monLog = <<>>
    /\ errLog = {}
    /\ monEnd = ""
    /\ outLog = <<>>
    /\ readN = 0
    /\ devEof = FALSE
    /\ devLog = <<>>
    /\ rxPc = "wait"
    /\ exitspam = <<>>
    /\ rxInts = <<>>
    /\ now = 0
    /\ lastEv = NoEv
    /\ ints = <<>>
    /\ submitted = <<>>
    /\ ups = 0
    /\ sentLog = <<>>

(***************************************************************************)
(* App::run, up to the loop (src/app.rs:222-232).                          *)
(***************************************************************************)
\* Terminal::new, enable_raw_mode and EnterAlternateScreen all succeed.
Setup ==
    /\ appPc = "setup"
    /\ appPc' = "draw"
    /\ raw' = TRUE
    /\ alt' = TRUE
    /\ lastEv' = Ev("Setup")
    /\ UNCHANGED <<input, output, hist, index, manual_scroll, scroll_pos,
                   cursor_pos, input_mode, spam_handler, res, box_height>>
    /\ UNCHANGED <<inCh, outCh, monVars, rxVars, now, ints, submitted, ups,
                   sentLog>>

\* One of them fails and ? returns the error: Terminal::new or
\* enable_raw_mode (entered = FALSE), or EnterAlternateScreen after raw mode
\* was enabled (entered = TRUE).
SetupFail(entered) ==
    /\ appPc = "setup"
    /\ appPc' = "failed"
    /\ raw' = entered
    /\ lastEv' = Ev("SetupFail")
    /\ UNCHANGED <<input, output, hist, index, manual_scroll, scroll_pos,
                   cursor_pos, input_mode, spam_handler, res, alt, box_height>>
    /\ UNCHANGED <<inCh, outCh, monVars, rxVars, now, ints, submitted, ups,
                   sentLog>>

(***************************************************************************)
(* terminal.draw(|f| self.ui(f))?  (src/app.rs:235, 307-355) in a message  *)
(* box h rows high.                                                        *)
(***************************************************************************)
Draw(h) ==
    /\ appPc = "draw"
    /\ LET r == ui_scroll(scroll_pos, manual_scroll, Len(output), h)
       IN  /\ scroll_pos' = r.pos
           /\ manual_scroll' = r.manual
    /\ box_height' = h
    /\ appPc' = "recv"
    /\ lastEv' = Ev("Draw")
    /\ UNCHANGED <<input, output, hist, index, cursor_pos, input_mode,
                   spam_handler, res, raw, alt>>
    /\ UNCHANGED <<inCh, outCh, monVars, rxVars, now, ints, submitted, ups,
                   sentLog>>

\* draw returns an error and ? returns it from run.
DrawFail ==
    /\ appPc = "draw"
    /\ appPc' = "failed"
    /\ lastEv' = Ev("DrawFail")
    /\ UNCHANGED <<input, output, hist, index, manual_scroll, scroll_pos,
                   cursor_pos, input_mode, spam_handler, res, raw, alt,
                   box_height>>
    /\ UNCHANGED <<inCh, outCh, monVars, rxVars, now, ints, submitted, ups,
                   sentLog>>

TryRecv_drain ==
    /\ appPc = "recv"
    /\ output' = output \o outCh
    /\ outCh' = <<>>
    /\ appPc' = "poll"
    /\ lastEv' = Ev("TryRecv")
    /\ UNCHANGED <<input, hist, index, manual_scroll, scroll_pos, cursor_pos,
                   input_mode, spam_handler, res, raw, alt, box_height>>
    /\ UNCHANGED <<inCh, monVars, rxVars, now, ints, submitted, ups, sentLog>>

(***************************************************************************)
(* if let Ok(str) = output_rx.try_recv() { self.output.push(str) }         *)
(***************************************************************************)
TryRecv ==
    /\ appPc = "recv"
    /\ IF outCh # <<>>
       THEN /\ output' = Append(output, Head(outCh))
            /\ outCh' = Tail(outCh)
       ELSE UNCHANGED <<output, outCh>>
    /\ appPc' = "poll"
    /\ lastEv' = Ev("TryRecv")
    /\ UNCHANGED <<input, hist, index, manual_scroll, scroll_pos, cursor_pos,
                   input_mode, spam_handler, res, raw, alt, box_height>>
    /\ UNCHANGED <<inCh, monVars, rxVars, now, ints, submitted, ups, sentLog>>

(***************************************************************************)
(* event::poll(timeout)? and event::read()?  (src/app.rs:242-296).         *)
(***************************************************************************)
\* What no handler changes: the other contexts and the clock.
KeyFrame == UNCHANGED <<outCh, monVars, rxVars, now>>

\* App::shutdown, reached by break.
Shutdown ==
    /\ appPc' = "done"
    /\ raw' = FALSE
    /\ alt' = FALSE

\* The handler returns and the loop goes round.
Continue ==
    /\ appPc' = "draw"
    /\ UNCHANGED <<raw, alt>>

\* poll times out, or the event is no key press, or the key has no arm.
KeyNone ==
    /\ appPc = "poll"
    /\ Continue
    /\ lastEv' = Ev("Other")
    /\ UNCHANGED <<input, output, hist, index, manual_scroll, scroll_pos,
                   cursor_pos, input_mode, spam_handler, res, box_height>>
    /\ UNCHANGED <<inCh, ints, submitted, ups, sentLog>>
    /\ KeyFrame

\* poll or read returns an error and ? returns it from run.
PollFail ==
    /\ appPc = "poll"
    /\ appPc' = "failed"
    /\ lastEv' = Ev("PollFail")
    /\ UNCHANGED <<input, output, hist, index, manual_scroll, scroll_pos,
                   cursor_pos, input_mode, spam_handler, res, raw, alt,
                   box_height>>
    /\ UNCHANGED <<inCh, ints, submitted, ups, sentLog>>
    /\ KeyFrame

\* KeyCode::Enter  (src/app.rs:248-254, submit 152-161).  The user submits
\* the texts of S.
KeyEnter(S) ==
    /\ appPc = "poll"
    /\ lastEv' = Ev("Enter")
    /\ IF input_mode = "Insert"
       THEN /\ Len(submitted) < MaxSubmit
            /\ input \in S
            /\ LET entr_txt == input
               IN  /\ input' = <<>>
                   /\ output' = Append(output, entr_txt)
                   /\ hist' = add(hist, entr_txt)
                   /\ index' = reset(hist')
                   /\ cursor_pos' = 0
                   /\ submitted' = Append(submitted, entr_txt)
                   /\ ups' = 0
                   /\ IF InClosed
                      THEN \* send(..).unwrap() panics
                           /\ appPc' = "panicked"
                           /\ UNCHANGED <<inCh, sentLog, raw, alt>>
                      ELSE /\ inCh' = Append(inCh,
                                 Msg(entr_txt \o CRLF, "enter", entr_txt))
                           /\ sentLog' = Append(sentLog,
                                 Msg(entr_txt \o CRLF, "enter", entr_txt))
                           /\ IF to_uppercase(entr_txt) = EXIT
                              THEN Shutdown
                              ELSE Continue
       ELSE /\ Continue
            /\ UNCHANGED <<input, output, hist, index, cursor_pos, inCh,
                           submitted, ups, sentLog>>
    /\ UNCHANGED <<manual_scroll, scroll_pos, input_mode, spam_handler, res,
                   box_height, ints>>
    /\ KeyFrame

\* KeyCode::Char('c') with CONTROL  (src/app.rs:255-265).
KeyCtrlC ==
    /\ appPc = "poll"
    /\ lastEv' = Ev("CtrlC")
    /\ IF input_mode = "Insert"
       THEN /\ Len(ints) < MaxInts
            /\ LET r == interrupted(spam_handler, now)
                   sent == IF InClosed THEN inCh
                           ELSE Append(inCh, Msg(STOP, "ctrlc", <<>>))
               IN  /\ output' = IF InClosed
                                THEN Append(output, <<"Couldn't stop!">>)
                                ELSE output
                   /\ spam_handler' = r.q
                   /\ ints' = Append(ints, [t |-> now, fired |-> r.ret])
                   /\ sentLog' = IF InClosed THEN sentLog
                                  ELSE IF r.ret
                                       THEN sentLog \o <<Msg(STOP, "ctrlc", <<>>),
                                                         Msg(EXIT, "ctrlc", <<>>)>>
                                       ELSE Append(sentLog, Msg(STOP, "ctrlc", <<>>))
                   /\ IF r.ret
                      THEN /\ inCh' = IF InClosed THEN sent
                                      ELSE Append(sent, Msg(EXIT, "ctrlc", <<>>))
                           /\ res' = IF InClosed THEN "Err" ELSE "Ok"
                           /\ Shutdown
                      ELSE /\ inCh' = sent
                           /\ res' = res
                           /\ Continue
       ELSE /\ Continue
            /\ UNCHANGED <<output, spam_handler, ints, inCh, res, sentLog>>
    /\ UNCHANGED <<input, hist, index, manual_scroll, scroll_pos, cursor_pos,
                   input_mode, box_height, submitted, ups>>
    /\ KeyFrame

\* KeyCode::Char(c)  (src/app.rs:266, put_char 163-166).  The user types
\* towards one of the texts of T: the buffer stays in T.
KeyChar(c, T) ==
    /\ appPc = "poll"
    /\ lastEv' = Ev("Char")
    /\ IF input_mode = "Insert"
       THEN IF insert_ok(input, cursor_pos)
            THEN /\ insert(input, cursor_pos, c) \in T
                 /\ input' = insert(input, cursor_pos, c)
                 /\ cursor_pos' = cursor_right(cursor_pos, input')
                 /\ Continue
            ELSE \* String::insert panics
                 /\ appPc' = "panicked"
                 /\ UNCHANGED <<input, cursor_pos, raw, alt>>
       ELSE /\ Continue
            /\ UNCHANGED <<input, cursor_pos>>
    /\ UNCHANGED <<output, hist, index, manual_scroll, scroll_pos, input_mode,
                   spam_handler, res, box_height>>
    /\ UNCHANGED <<inCh, ints, submitted, ups, sentLog>>
    /\ KeyFrame

KeyBackspace_anymode ==
    /\ appPc = "poll"
    /\ lastEv' = Ev("Backspace")
    /\ IF cursor_pos # 0
       THEN /\ input' = remove_char(input, cursor_pos)
            /\ cursor_pos' = cursor_left(cursor_pos, input')
       ELSE UNCHANGED <<input, cursor_pos>>
    /\ Continue
    /\ UNCHANGED <<output, hist, index, manual_scroll, scroll_pos, input_mode,
                   spam_handler, res, box_height>>
    /\ UNCHANGED <<inCh, ints, submitted, ups, sentLog>>
    /\ KeyFrame

\* KeyCode::Backspace  (src/app.rs:267, delete_char 146-150, remove_char
\* 191-199).
KeyBackspace ==
    /\ appPc = "poll"
    /\ lastEv' = Ev("Backspace")
    /\ IF input_mode = "Insert" /\ cursor_pos # 0
       THEN /\ input' = remove_char(input, cursor_pos)
            /\ cursor_pos' = cursor_left(cursor_pos, input')
       ELSE UNCHANGED <<input, cursor_pos>>
    /\ Continue
    /\ UNCHANGED <<output, hist, index, manual_scroll, scroll_pos, input_mode,
                   spam_handler, res, box_height>>
    /\ UNCHANGED <<inCh, ints, submitted, ups, sentLog>>
    /\ KeyFrame

\* KeyCode::Up  (src/app.rs:268-271 in Insert, 287 in Normal).
KeyUp ==
    /\ appPc = "poll"
    /\ lastEv' = Ev("Up")
    /\ IF input_mode = "Insert"
       THEN /\ ups < MaxUps
            /\ index' = prev_cmd(hist, index)
            /\ input' = hist[index' + 1]
            /\ cursor_pos' = ByteLen(input')
            /\ ups' = IF ups >= 0 THEN ups + 1 ELSE ups
            /\ UNCHANGED <<scroll_pos, manual_scroll>>
       ELSE /\ LET r == scroll_up(scroll_pos, manual_scroll)
               IN  /\ scroll_pos' = r.pos
                   /\ manual_scroll' = r.manual
            /\ UNCHANGED <<index, input, cursor_pos, ups>>
    /\ Continue
    /\ UNCHANGED <<output, hist, input_mode, spam_handler, res, box_height>>
    /\ UNCHANGED <<inCh, ints, submitted, sentLog>>
    /\ KeyFrame

\* KeyCode::Down  (src/app.rs:272-275 in Insert, 288 in Normal).
KeyDown ==
    /\ appPc = "poll"
    /\ lastEv' = Ev("Down")
    /\ IF input_mode = "Insert"
       THEN /\ index' = next_cmd(hist, index)
            /\ input' = hist[index' + 1]
            /\ cursor_pos' = ByteLen(input')
            /\ ups' = -1
            /\ UNCHANGED <<scroll_pos, manual_scroll>>
       ELSE /\ LET r == scroll_down(scroll_pos, manual_scroll)
               IN  /\ scroll_pos' = r.pos
                   /\ manual_scroll' = r.manual
            /\ UNCHANGED <<index, input, cursor_pos, ups>>
    /\ Continue
    /\ UNCHANGED <<output, hist, input_mode, spam_handler, res, box_height>>
    /\ UNCHANGED <<inCh, ints, submitted, sentLog>>
    /\ KeyFrame

\* KeyCode::Left  (src/app.rs:276).
KeyLeft ==
    /\ appPc = "poll"
    /\ lastEv' = Ev("Left")
    /\ cursor_pos' = IF input_mode = "Insert"
                     THEN cursor_left(cursor_pos, input) ELSE cursor_pos
    /\ Continue
    /\ UNCHANGED <<input, output, hist, index, manual_scroll, scroll_pos,
                   input_mode, spam_handler, res, box_height>>
    /\ UNCHANGED <<inCh, ints, submitted, ups, sentLog>>
    /\ KeyFrame

\* KeyCode::Right  (src/app.rs:277).
KeyRight ==
    /\ appPc = "poll"
    /\ lastEv' = Ev("Right")
    /\ cursor_pos' = IF input_mode = "Insert"
                     THEN cursor_right(cursor_pos, input) ELSE cursor_pos
    /\ Continue
    /\ UNCHANGED <<input, output, hist, index, manual_scroll, scroll_pos,
                   input_mode, spam_handler, res, box_height>>
    /\ UNCHANGED <<inCh, ints, submitted, ups, sentLog>>
    /\ KeyFrame

\* KeyCode::PageUp  (src/app.rs:278 in Insert, 287 in Normal).
KeyPageUp ==
    /\ appPc = "poll"
    /\ lastEv' = Ev("PageUp")
    /\ LET r == scroll_up(scroll_pos, manual_scroll)
       IN  /\ scroll_pos' = r.pos
           /\ manual_scroll' = r.manual
    /\ Continue
    /\ UNCHANGED <<input, output, hist, index, cursor_pos, input_mode,
                   spam_handler, res, box_height>>
    /\ UNCHANGED <<inCh, ints, submitted, ups, sentLog>>
    /\ KeyFrame

\* KeyCode::PageDown  (src/app.rs:279 in Insert, 288 in Normal).
KeyPageDown ==
    /\ appPc = "poll"
    /\ lastEv' = Ev("PageDown")
    /\ LET r == scroll_down(scroll_pos, manual_scroll)
       IN  /\ scroll_pos' = r.pos
           /\ manual_scroll' = r.manual
    /\ Continue
    /\ UNCHANGED <<input, output, hist, index, cursor_pos, input_mode,
                   spam_handler, res, box_height>>
    /\ UNCHANGED <<inCh, ints, submitted, ups, sentLog>>
    /\ KeyFrame

\* KeyCode::Esc  (src/app.rs:280 in Insert, 289 in Normal).
KeyEsc ==
    /\ appPc = "poll"
    /\ lastEv' = Ev("Esc")
    /\ input_mode' = IF input_mode = "Insert" THEN "Normal" ELSE "Insert"
    /\ Continue
    /\ UNCHANGED <<input, output, hist, index, manual_scroll, scroll_pos,
                   cursor_pos, spam_handler, res, box_height>>
    /\ UNCHANGED <<inCh, ints, submitted, ups, sentLog>>
    /\ KeyFrame

\* A second of time passes.
Advance ==
    /\ now < MaxTime
    /\ now' = now + 1
    /\ UNCHANGED <<appVars, inCh, outCh, monVars, rxVars, histVars>>

(***************************************************************************)
(* monitor's session loop (src/main.rs:58-90).                             *)
(***************************************************************************)
\* handler::handle, the macro expansion: an unknown function of its
\* argument, kept as the argument behind a mark.
handle(text) == <<"<macro>">> \o text

\* String::from_utf8_lossy: an invalid byte becomes U+FFFD.
from_utf8_lossy(bytes) ==
    [i \in 1..Len(bytes) |-> IF bytes[i] = "\\xFF" THEN "\\uFFFD" ELSE bytes[i]]

dispatch_trimmed(text) ==
    IF to_uppercase(trim(text)) = EXIT THEN [act |-> "exit", bytes |-> <<>>]
    ELSE IF to_uppercase(trim(text)) = CLEAR THEN [act |-> "clear", bytes |-> <<>>]
    ELSE IF starts_with(to_uppercase(text), HUHN)
         THEN [act |-> "write", bytes |-> handle(trim(text))]
    ELSE [act |-> "write", bytes |-> trim(text)]

\* The input branch of select!: what is done with the message text.
dispatch(text) ==
    IF to_uppercase(trim(text)) = EXIT THEN [act |-> "exit", bytes |-> <<>>]
    ELSE IF to_uppercase(trim(text)) = CLEAR THEN [act |-> "clear", bytes |-> <<>>]
    ELSE IF starts_with(to_uppercase(text), HUHN)
         THEN [act |-> "write", bytes |-> handle(text)]
    ELSE [act |-> "write", bytes |-> text]

recv_newest(ch) == [msg |-> ch[Len(ch)], rest |-> SubSeq(ch, 1, Len(ch) - 1)]

\* input_rx.recv() on a channel that holds messages: the oldest one.
recv(ch) == [msg |-> Head(ch), rest |-> Tail(ch)]

\* Some(text) = input_rx.recv(); ok: whether port.write succeeds.
MonRecv(ok) ==
    /\ monPc = "run"
    /\ inCh # <<>>
    /\ LET m == recv(inCh).msg
           d == dispatch(m.text)
       IN  /\ d.act # "write" => ok
           /\ inCh' = recv(inCh).rest
           /\ monPc' = IF d.act = "exit" THEN "done" ELSE "run"
           /\ monEnd' = IF d.act = "exit" THEN "exit" ELSE monEnd
           /\ monLog' = Append(monLog,
                  [msg |-> m, act |-> d.act, bytes |-> d.bytes, ok |-> ok,
                   scrollback |-> Len(output)])
           /\ errLog' = IF ok THEN errLog
                        ELSE IF starts_with(to_uppercase(m.text), HUHN)
                             THEN errLog \cup {"Command failed"}
                             ELSE errLog \cup {"Couldn't send message"}
    \* the read_until future that lost the race is dropped
    /\ readN' = 0
    /\ UNCHANGED <<appVars, outCh, buf, devLines, outLog, devEof, devLog, rxVars,
                   now, histVars>>

\* read_until has read a byte that is not the line feed; it stays in buf
\* whichever branch of select! completes next.
MonReadPart(c) ==
    /\ monPc = "run"
    /\ devLines < MaxDev
    /\ Len(buf) < MaxBuf
    /\ ~devEof
    /\ buf' = Append(buf, c)
    /\ readN' = readN + 1
    /\ devLog' = Append(devLog, c)
    /\ UNCHANGED <<appVars, inCh, outCh, monPc, devLines, monLog, errLog,
                   monEnd, outLog, devEof, rxVars, now, histVars>>

\* read_until has read the bytes t, none of them the line feed.  The device
\* sends towards one of the texts of T: buf stays in T.
MonReadBytes(t, T) ==
    /\ monPc = "run"
    /\ devLines < MaxDev
    /\ t # <<>>
    /\ buf \o t \in T
    /\ ~devEof
    /\ buf' = buf \o t
    /\ readN' = readN + Len(t)
    /\ devLog' = devLog \o t
    /\ UNCHANGED <<appVars, inCh, outCh, monPc, devLines, monLog, errLog,
                   monEnd, outLog, devEof, rxVars, now, histVars>>

\* read_until returns Ok(n), n > 0, at the line feed.
MonReadLine ==
    /\ monPc = "run"
    /\ devLines < MaxDev
    /\ ~devEof
    /\ devLines' = devLines + 1
    /\ devLog' = Append(devLog, LF)
    /\ readN' = 0
    /\ LET line == from_utf8_lossy(Append(buf, LF))
       IN  IF OutClosed
           THEN \* output_tx.send(input).unwrap() panics
                /\ monPc' = "panicked"
                /\ monEnd' = "panic"
                /\ buf' = Append(buf, LF)
                /\ UNCHANGED <<outCh, outLog>>
           ELSE /\ outCh' = Append(outCh, line)
                /\ outLog' = Append(outLog, line)
                /\ buf' = <<>>
                /\ UNCHANGED <<monPc, monEnd>>
    /\ UNCHANGED <<appVars, inCh, monLog, errLog, devEof, rxVars, now, histVars>>

\* The stream ends after bytes this call has read: read_until returns
\* Ok(n), n > 0, and buf holds a line without a line feed.
MonReadEnd ==
    /\ monPc = "run"
    /\ readN > 0
    /\ ~devEof
    /\ devEof' = TRUE
    /\ readN' = 0
    /\ IF OutClosed
       THEN \* output_tx.send(input).unwrap() panics
            /\ monPc' = "panicked"
            /\ monEnd' = "panic"
            /\ UNCHANGED <<outCh, buf, outLog>>
       ELSE /\ outCh' = Append(outCh, from_utf8_lossy(buf))
            /\ outLog' = Append(outLog, from_utf8_lossy(buf))
            /\ buf' = <<>>
            /\ UNCHANGED <<monPc, monEnd>>
    /\ UNCHANGED <<appVars, inCh, devLines, monLog, errLog, devLog, rxVars, now,
                   histVars>>

MonEOF_continue ==
    /\ monPc = "run"
    /\ readN = 0
    /\ monEnd' = "eof"
    /\ devEof' = TRUE
    /\ UNCHANGED <<appVars, inCh, outCh, monPc, buf, devLines, monLog, errLog,
                   outLog, readN, devLog, rxVars, now, histVars>>

\* read_until returns Ok(0): the stream has ended and this call has read
\* nothing (bytes a dropped call left in buf are not counted).
MonEOF ==
    /\ monPc = "run"
    /\ readN = 0
    /\ monPc' = "done"
    /\ monEnd' = "eof"
    /\ devEof' = TRUE
    /\ UNCHANGED <<appVars, inCh, outCh, buf, devLines, monLog, errLog, outLog,
                   readN, devLog, rxVars, now, histVars>>

\* read_until returns Err(e).
MonReadErr ==
    /\ monPc = "run"
    /\ monPc' = "done"
    /\ monEnd' = "err"
    /\ errLog' = errLog \cup {"read error"}
    /\ UNCHANGED <<appVars, inCh, outCh, buf, devLines, monLog, outLog, devVars,
                   rxVars, now, histVars>>

(***************************************************************************)
(* input::receiver (src/input.rs:8-44), run once on its own thread         *)
(* (src/main.rs:27): one readline, one match on its result, then return.   *)
(***************************************************************************)
\* The tracker of src/input.rs:29-40, with t the value of Instant::now().
exitspam_step(q, t) ==
    IF Len(q) = TrackerCap
    THEN LET time == q[Len(q)]
             rest == SubSeq(q, 1, Len(q) - 1)
         IN  IF t - time <= Window
             THEN [ret |-> TRUE, q |-> rest]
             ELSE [ret |-> FALSE, q |-> <<t>> \o rest]
    ELSE [ret |-> FALSE, q |-> <<t>> \o q]

\* readline returns Ok(line).
RxLine(line) ==
    /\ rxPc = "wait"
    /\ rxPc' = "done"
    /\ IF InClosed
       THEN /\ errLog' = errLog \cup {"Couldn't report input to main thread!"}
            /\ UNCHANGED <<inCh, sentLog>>
       ELSE /\ inCh' = Append(inCh, Msg(line \o CRLF, "receiver", line))
            /\ sentLog' = Append(sentLog, Msg(line \o CRLF, "receiver", line))
            /\ UNCHANGED errLog
    /\ UNCHANGED <<appVars, outCh, monPc, buf, devLines, monLog, monEnd, outLog,
                   devVars, exitspam, rxInts, now, lastEv, ints, submitted, ups>>

\* Ctrl-C is pressed at the receiver's prompt.  While readline is waiting it
\* returns Err(Interrupted); once receiver has returned nothing reads the
\* key.
RxInterrupt ==
    /\ Len(rxInts) < MaxInts
    /\ rxInts' = Append(rxInts, [t |-> now, handled |-> rxPc = "wait",
                                 open |-> ~InClosed])
    /\ IF rxPc # "wait"
       THEN UNCHANGED <<rxPc, exitspam, inCh, sentLog>>
       ELSE IF InClosed
            THEN \* send(..).expect("Couldn't stop!") panics
                 /\ rxPc' = "panicked"
                 /\ UNCHANGED <<exitspam, inCh, sentLog>>
            ELSE LET r == exitspam_step(exitspam, now)
                     sent == IF r.ret
                             THEN <<Msg(STOP, "receiver", <<>>),
                                    Msg(EXIT, "receiver", <<>>)>>
                             ELSE <<Msg(STOP, "receiver", <<>>)>>
                 IN  /\ inCh' = inCh \o sent
                     /\ sentLog' = sentLog \o sent
                     /\ exitspam' = r.q
                     /\ rxPc' = "done"
    /\ UNCHANGED <<appVars, outCh, monVars, now, lastEv, ints, submitted, ups>>

\* readline returns another error.
RxError ==
    /\ rxPc = "wait"
    /\ rxPc' = "done"
    /\ errLog' = errLog \cup {"readline error"}
    /\ UNCHANGED <<appVars, inCh, outCh, monPc, buf, devLines, monLog, monEnd,
                   outLog, devVars, exitspam, rxInts, now, histVars>>

(***************************************************************************)
(* The regex crate's matching, for the syntax REGSET uses.  A pattern is a *)
(* tree; Ends(re, s, P) is the set of offsets where a match of re that     *)
(* starts at an offset of P can end.  Offsets count characters before the  *)
(* position, 0..Len(s).                                                    *)
(***************************************************************************)
Lit(c)    == [t |-> "lit", c |-> c]
Cls(k)    == [t |-> "cls", k |-> k]
Bol(m)    == [t |-> "bol", m |-> m]      \* ^, m: under (?m)
Eol(m)    == [t |-> "eol", m |-> m]      \* $, m: under (?m)
Sq(a)     == [t |-> "seq", a |-> a]
Alt(a)    == [t |-> "alt", a |-> a]
Opt(r)    == [t |-> "opt", r |-> r]
Rep(r, n) == [t |-> "rep", r |-> r, n |-> n]   \* r{n,}
Star(r)   == Rep(r, 0)
Plus(r)   == Rep(r, 1)
Str(w)    == Sq([i \in 1..Len(w) |-> Lit(w[i])])

WordChars ==
    {"a", "b", "c", "d", "e", "f", "g", "h", "i", "j", "k", "l", "m", "n", "o",
     "p", "q", "r", "s", "t", "u", "v", "w", "x", "y", "z",
     "A", "B", "C", "D", "E", "F", "G", "H", "I", "J", "K", "L", "M", "N", "O",
     "P", "Q", "R", "S", "T", "U", "V", "W", "X", "Y", "Z",
     "0", "1", "2", "3", "4", "5", "6", "7", "8", "9", "_", "é", "É"}

\* . (no line feed), \s, \S, \w
ClassHas(k, c) ==
    CASE k = "dot"      -> c # LF
      [] k = "space"    -> IsSpace(c)
      [] k = "nonspace" -> ~IsSpace(c)
      [] k = "word"     -> c \in WordChars

RECURSIVE Ends(_, _, _)
RECURSIVE SeqEnds(_, _, _, _)
RECURSIVE StarEnds(_, _, _)
RECURSIVE RepEnds(_, _, _, _)

Ends(re, s, P) ==
    CASE re.t = "lit" -> {p + 1 : p \in {q \in P : q < Len(s) /\ s[q + 1] = re.c}}
      [] re.t = "cls" ->
             {p + 1 : p \in {q \in P : q < Len(s) /\ ClassHas(re.k, s[q + 1])}}
      [] re.t = "bol" ->
             {p \in P : IF p = 0 THEN TRUE ELSE re.m /\ s[p] = LF}
      [] re.t = "eol" ->
             {p \in P : IF p = Len(s) THEN TRUE ELSE re.m /\ s[p + 1] = LF}
      [] re.t = "seq" -> SeqEnds(re.a, 1, s, P)
      [] re.t = "alt" -> UNION {Ends(re.a[i], s, P) : i \in 1..Len(re.a)}
      [] re.t = "opt" -> P \cup Ends(re.r, s, P)
      [] re.t = "rep" -> StarEnds(re.r, s, RepEnds(re.r, re.n, s, P))

\* the parts a[k..] one after another
SeqEnds(a, k, s, P) ==
    IF k > Len(a) \/ P = {} THEN P
    ELSE SeqEnds(a, k + 1, s, Ends(a[k], s, P))

\* r*
StarEnds(r, s, P) ==
    LET N == P \cup Ends(r, s, P)
    IN  IF N = P THEN P ELSE StarEnds(r, s, N)

\* r exactly n times
RepEnds(r, n, s, P) ==
    IF n = 0 \/ P = {} THEN P ELSE RepEnds(r, n - 1, s, Ends(r, s, P))

\* Regex::is_match: a match starting anywhere.
is_match(re, s) == Ends(re, s, 0..Len(s)) # {}

\* REGSET (src/app.rs:27-37); rule i of the source is REGSET[i + 1].
REGSET == <<
    Sq(<<Bol(FALSE),
         Rep(Alt(<<Lit("\\x60"), Lit("."), Lit(":"), Lit("/"), Lit("-"), Lit("+"),
                   Lit("o"), Lit("s"), Lit("h"), Lit("d"), Lit("y"), Lit(SP)>>),
             50)>>),
    Sq(<<Bol(FALSE), Lit("#"), Lit(SP)>>),
    Sq(<<Bol(TRUE), Star(Cls("space")),
         Plus(Alt(<<Lit("-"), Lit("="), Lit("#")>>)),
         Star(Cls("space")), Eol(TRUE)>>),
    Sq(<<Bol(FALSE), Lit("["), Lit(SP), Plus(Lit("=")), Opt(Lit(SP)),
         Star(Cls("dot")), Opt(Lit(SP)), Plus(Lit("=")), Lit(SP), Lit("]")>>),
    Sq(<<Bol(FALSE), Lit(">"), Lit(SP), Plus(Cls("word"))>>),
    Alt(<<Sq(<<Bol(FALSE), Str(<<"E", "R", "R", "O", "R">>)>>),
          Sq(<<Str(<<"W", "A", "R", "N", "I", "N", "G">>), Lit(":"), Lit(SP)>>)>>),
    Sq(<<Bol(FALSE), Star(Cls("dot")), Lit(":"), Plus(Lit(SP)),
         Star(Cls("dot"))>>),
    Sq(<<Bol(FALSE), Lit("["), Star(Cls("dot")), Lit("]")>>),
    Sq(<<Bol(TRUE), Plus(Cls("nonspace")),
         Star(Sq(<<Lit(SP), Opt(Lit("[")), Lit("-"), Star(Cls("nonspace")),
                   Opt(Sq(<<Lit(SP), Lit("<"), Star(Cls("nonspace")),
                            Lit(">")>>)),
                   Opt(Lit("]"))>>)),
         Star(Cls("space")), Eol(TRUE)>>) >>

\* COLORSET (src/app.rs:39-49): (Color, Modifier)
COLORSET == <<
    <<"White", "empty">>, <<"White", "BOLD">>, <<"Blue", "empty">>,
    <<"Yellow", "BOLD">>, <<"Cyan", "empty">>, <<"Red", "empty">>,
    <<"Green", "empty">>, <<"Green", "BOLD">>, <<"Yellow", "empty">> >>

\* the elements of a set of numbers, smallest first
RECURSIVE Ascending(_)
Ascending(M) ==
    IF M = {} THEN <<>>
    ELSE LET m == CHOOSE x \in M : \A y \in M : x <= y
         IN  <<m>> \o Ascending(M \ {m})

\* REGSET.matches(s).into_iter().collect(): the indices of the rules that
\* match, in ascending order.
matches(s) == Ascending({i \in 0..(Len(REGSET) - 1) : is_match(REGSET[i + 1], s)})

\* App::parse: the (Color, Modifier) of the Line it returns.
parse(s) ==
    LET m == matches(s)
    IN  IF m # <<>> THEN COLORSET[m[1] + 1] ELSE <<"White", "empty">>

(***************************************************************************)
(* Inputs.                                                                 *)
(***************************************************************************)
Prefixes(L) == UNION { {SubSeq(l, 1, k) : k \in 0..Len(l)} : l \in L }

\* Texts the user types at the command pipeline, and their characters.
CmdLines == { <<"c", "l", "e", "a", "r">>, <<"h", "u", "h", "n">> }
CmdChars == {"c", "l", "e", "a", "r", "h", "u", "n"}
CmdSubmit == CmdLines \cup { <<>>, <<"h", "u">> }

\* Texts the user types to leave.
ExitLines == { <<"e", "x", "i", "t", SP>> }
ExitChars == {"e", "x", "i", "t", SP}
ExitSubmit == ExitLines \cup { <<"e", "x", "i", "t">>, <<"e">> }

\* Texts the user types and recalls from the history.
HistLines == { <<"a", "b">>, <<"b">> }
HistChars == {"a", "b"}

\* Texts with a character of two bytes.
WideLines == { <<"é", "a">> }
WideChars == {"é", "a"}

\* Lines entered at the receiver's prompt.
RxLines == { <<"a">>, <<"e", "x", "i", "t">> }

\* The text typed before the mode is changed.
ModeLines == { <<"a">> }
ModeChars == {"a"}

\* Heights of the message box (the terminal may be resized between frames).
BoxHeights == {2, 3}
OneHeight  == {3}

\* Bytes the device sends before a line feed.
DevChars == {"x"}

\* Lines the device sends to be styled (without their line feed).
ParseTexts ==
    {
      <<"E", "R", "R", "O", "R", ":", SP, "s", "e", "n", "s", "o", "r", SP, "o", "f", "f", "l", "i", "n", "e">>,
      <<"#", SP, "W", "A", "R", "N", "I", "N", "G", ":", SP, "l", "o", "w">>,
      <<"-", "-", "-", "-">>,
      <<">", SP, "o", "k">>,
      <<"x">>,
      <<"a", SP, "b">>,
      <<"[", SP, "=", SP, "x", SP, "=", SP, "]">>,
      <<"[", "d", "]">>,
      <<"k", ":", SP, "v">>,
      [i \in 1..50 |-> "o"],
      <<"#", SP, "c", "m", "d">>,
      <<"c", "m", "d", SP, "-", "a", SP, "<", "v", ">">> }

(***************************************************************************)
(* The command pipeline: the render loop with typed text and Enter, and    *)
(* the orchestrator taking the messages and ending on a device read.       *)
(***************************************************************************)
Next ==
    \/ Setup
    \/ \E h \in OneHeight : Draw(h)
    \/ TryRecv
    \/ KeyEnter(CmdSubmit)
    \/ \E c \in CmdChars : KeyChar(c, Prefixes(CmdLines))
    \/ \E ok \in BOOLEAN : MonRecv(ok)
    \/ MonEOF
    \/ MonReadErr

Spec == Init /\ [][Next]_vars

(***************************************************************************)
(* Leaving: every way App::run stops, and the orchestrator's end.          *)
(***************************************************************************)
NextExit ==
    \/ Setup
    \/ \E entered \in BOOLEAN : SetupFail(entered)
    \/ \E h \in OneHeight : Draw(h)
    \/ DrawFail
    \/ TryRecv
    \/ PollFail
    \/ KeyEnter(ExitSubmit)
    \/ KeyCtrlC
    \/ \E c \in ExitChars : KeyChar(c, Prefixes(ExitLines))
    \/ \E ok \in BOOLEAN : MonRecv(ok)
    \/ MonEOF

SpecExit == Init /\ [][NextExit]_vars

(***************************************************************************)
(* Repeated interrupts: Ctrl-C presses as time passes.                     *)
(***************************************************************************)
NextSpam ==
    \/ Setup
    \/ \E h \in OneHeight : Draw(h)
    \/ TryRecv
    \/ KeyCtrlC
    \/ Advance
    \/ \E ok \in BOOLEAN : MonRecv(ok)
    \/ MonEOF

SpecSpam == Init /\ [][NextSpam]_vars

(***************************************************************************)
(* Editing and the command history.                                        *)
(***************************************************************************)
NextHist ==
    \/ Setup
    \/ \E h \in OneHeight : Draw(h)
    \/ TryRecv
    \/ KeyEnter(Prefixes(HistLines))
    \/ \E c \in HistChars : KeyChar(c, Prefixes(HistLines))
    \/ KeyBackspace
    \/ KeyUp
    \/ KeyDown
    \/ KeyLeft
    \/ KeyRight
    \/ \E ok \in BOOLEAN : MonRecv(ok)
    \/ MonEOF

SpecHist == Init /\ [][NextHist]_vars

(***************************************************************************)
(* Scrolling: scroll keys in both modes, frames of varying height, output  *)
(* arriving from the device and from Enter.                                *)
(***************************************************************************)
NextScroll ==
    \/ Setup
    \/ \E h \in BoxHeights : Draw(h)
    \/ TryRecv
    \/ KeyEnter({<<>>})
    \/ KeyUp
    \/ KeyDown
    \/ KeyPageUp
    \/ KeyPageDown
    \/ KeyEsc
    \/ MonReadLine

SpecScroll == Init /\ [][NextScroll]_vars

(***************************************************************************)
(* The device side: lines read from the port while the render loop runs,   *)
(* stops or fails, and the orchestrator's loop ending on a read.           *)
(***************************************************************************)
NextDev ==
    \/ Setup
    \/ \E h \in OneHeight : Draw(h)
    \/ DrawFail
    \/ TryRecv
    \/ KeyEnter({<<>>})
    \/ \E ok \in BOOLEAN : MonRecv(ok)
    \/ \E c \in DevChars : MonReadPart(c)
    \/ MonReadLine
    \/ MonEOF
    \/ MonReadErr

SpecDev == Init /\ [][NextDev]_vars

(***************************************************************************)
(* Styling: lines of several shapes arrive from the device and are drawn.  *)
(***************************************************************************)
NextParse ==
    \/ Setup
    \/ \E h \in OneHeight : Draw(h)
    \/ TryRecv
    \/ \E t \in ParseTexts : MonReadBytes(t, ParseTexts)
    \/ MonReadLine

SpecParse == Init /\ [][NextParse]_vars

(***************************************************************************)
(* Editing a line that holds a character of more than one byte.            *)
(***************************************************************************)
NextWide ==
    \/ Setup
    \/ \E h \in OneHeight : Draw(h)
    \/ TryRecv
    \/ KeyEnter(Prefixes(WideLines))
    \/ \E c \in WideChars : KeyChar(c, Prefixes(WideLines))
    \/ KeyBackspace
    \/ KeyUp
    \/ KeyDown
    \/ KeyLeft
    \/ KeyRight
    \/ \E ok \in BOOLEAN : MonRecv(ok)

SpecWide == Init /\ [][NextWide]_vars

(***************************************************************************)
(* The input channel with both its senders: the receiver thread and the    *)
(* render loop.                                                            *)
(***************************************************************************)
NextRx ==
    \/ Setup
    \/ \E h \in OneHeight : Draw(h)
    \/ TryRecv
    \/ KeyEnter({<<>>})
    \/ \E line \in RxLines : RxLine(line)
    \/ RxInterrupt
    \/ RxError
    \/ \E ok \in BOOLEAN : MonRecv(ok)
    \/ MonEOF

SpecRx == Init /\ [][NextRx]_vars

(***************************************************************************)
(* The two input modes: Escape, and the editing keys in either mode.       *)
(***************************************************************************)
NextMode ==
    \/ Setup
    \/ \E h \in OneHeight : Draw(h)
    \/ TryRecv
    \/ KeyNone
    \/ KeyEsc
    \/ KeyEnter(ModeLines)
    \/ KeyCtrlC
    \/ \E c \in ModeChars : KeyChar(c, Prefixes(ModeLines))
    \/ KeyBackspace
    \/ KeyLeft
    \/ KeyRight

SpecMode == Init /\ [][NextMode]_vars

(***************************************************************************)
(* The select! race: a device line arriving in pieces while messages of    *)
(* the input channel are taken, and the stream ending at any point.        *)
(***************************************************************************)
NextRace ==
    \/ Setup
    \/ \E h \in OneHeight : Draw(h)
    \/ TryRecv
    \/ KeyEnter({<<>>})
    \/ \E ok \in BOOLEAN : MonRecv(ok)
    \/ \E c \in DevChars : MonReadPart(c)
    \/ MonReadLine
    \/ MonReadEnd
    \/ MonEOF

SpecRace == Init /\ [][NextRace]_vars

(***************************************************************************)
(* Properties.                                                             *)
(***************************************************************************)
Last(s) == s[Len(s)]
Ended == appPc \in {"done", "failed", "panicked"}
IsExit(line)  == to_uppercase(trim(line)) = EXIT
IsClear(line) == to_uppercase(trim(line)) = CLEAR
IsMacro(line) == starts_with(to_uppercase(line), HUHN)

\* C1: whenever App::run has stopped (returned Ok or Err, or panicked), the
\* terminal is restored: raw mode is off and the alternate screen is left.
C1_RestoredOnEveryExit == Ended => (~raw /\ ~alt)

\* C2: starting from an empty tracker, when the first three interrupts lie
\* within a 3-second window the third one reports the hard exit, and the
\* render loop has ended by it.
C2_ThirdInterruptFires ==
    (Len(ints) >= 3 /\ ints[3].t - ints[1].t <= Window)
        => (ints[3].fired /\ appPc = "done")

\* C3: the hard exit never fires on an interrupt that has no two
\* predecessors, or whose gap to the interrupt two places before it exceeds
\* 3 seconds.
C3_NoFireOutsideWindow ==
    \A i \in 1..Len(ints) :
        (i < 3 \/ ints[i].t - ints[Max(i - 2, 1)].t > Window) => ~ints[i].fired

\* C3 witness: a fourth interrupt on a full tracker, more than 3 seconds
\* after the second one, did not fire.
C3_Witness ==
    /\ Len(ints) >= 4
    /\ ints[4].t - ints[2].t > Window
    /\ ints[4].t - ints[3].t <= Window
    /\ ~ints[4].fired

\* C4: for every submitted CLEAR the orchestrator has taken, the scrollback
\* was empty when it was handled and nothing was written to the device.
C4_ClearEmptiesScrollback ==
    \A i \in 1..Len(monLog) :
        (monLog[i].msg.src = "enter" /\ IsClear(monLog[i].msg.line))
            => /\ monLog[i].act = "clear"
               /\ monLog[i].bytes = <<>>
               /\ monLog[i].scrollback = 0

C6_UpRecallsNewestFirst ==
    (lastEv.code = "Up" /\ lastEv.mode = "Insert" /\ ups >= 1
         /\ Len(submitted) >= 1)
        => LET n == Len(submitted) IN
           /\ input = submitted[Max(n - ups + 1, 1)]
           /\ (ups >= n => index = 0)

\* C6 witness: two different submissions, and a third Up press.
C6_Witness ==
    /\ lastEv.code = "Up" /\ lastEv.mode = "Insert"
    /\ Len(submitted) = 2 /\ submitted[1] # submitted[2]
    /\ ups = 3

\* C7: the history always ends with the empty staging entry and the index
\* is inside it; Down pressed on the newest committed entry moves to the
\* staging entry and empties the input buffer.
C7_StagingAndDown ==
    /\ Len(hist) >= 1
    /\ Last(hist) = <<>>
    /\ 0 <= index /\ index < Len(hist)
    /\ (lastEv.code = "Down" /\ lastEv.mode = "Insert"
            /\ Len(hist) >= 2 /\ lastEv.index0 = Len(hist) - 2)
           => (index = Len(hist) - 1 /\ input = <<>>)

\* C7 witness: Down was pressed on the newest committed entry, which is not
\* empty.
C7_Witness ==
    /\ lastEv.code = "Down" /\ lastEv.mode = "Insert"
    /\ Len(hist) >= 2 /\ lastEv.index0 = Len(hist) - 2
    /\ hist[Len(hist) - 1] # <<>>

ScrollUpEv ==
    \/ lastEv.code = "PageUp"
    \/ lastEv.code = "Up" /\ lastEv.mode = "Normal"
ScrollDownEv ==
    \/ lastEv.code = "PageDown"
    \/ lastEv.code = "Down" /\ lastEv.mode = "Normal"

\* C8 as stated: right after any scroll key, in either direction and either
\* mode, the manual-scroll flag is true.
C8_EveryScrollSetsManual == (ScrollUpEv \/ ScrollDownEv) => manual_scroll

\* C8 as amended: right after a scroll-up key (PageUp in either mode, Up in
\* Navigation mode) the flag is true; a scroll-down key (PageDown in either
\* mode, Down in Navigation mode) leaves the flag as it was.
C8_ScrollUpSetsManual ==
    /\ ScrollUpEv => manual_scroll
    /\ ScrollDownEv => (manual_scroll = lastEv.manual0)

\* C8 witness: Up in Navigation mode turned the flag on.
C8_Witness ==
    /\ lastEv.code = "Up" /\ lastEv.mode = "Normal"
    /\ ~lastEv.manual0 /\ manual_scroll

\* The bottom threshold of the frame just drawn.
Threshold == Clamp(Len(output) - box_height + 2, 0, Len(output))

\* C9: a frame clears the manual-scroll flag exactly when the scroll offset
\* is at or past the bottom threshold; no other step of the render loop
\* (an output arrival, a key) clears it.
C9_ClearedExactlyAtBottom ==
    /\ lastEv.code = "Draw" =>
           ((lastEv.manual0 /\ ~manual_scroll)
                <=> (lastEv.manual0 /\ scroll_pos >= Threshold))
    /\ lastEv.code # "Draw" => (lastEv.manual0 => manual_scroll)

\* C9 witness: a frame cleared the flag with the offset on a threshold that
\* is not the top.
C9_Witness ==
    /\ lastEv.code = "Draw"
    /\ lastEv.manual0 /\ ~manual_scroll
    /\ Threshold > 0 /\ scroll_pos = Threshold

\* C10: right after Enter on a text that is EXIT once trimmed and
\* upper-cased, and whose message was sent, the render loop has ended with
\* the terminal restored.
C10_ExitEndsRenderLoop ==
    (lastEv.code = "Enter" /\ lastEv.mode = "Insert" /\ appPc # "panicked"
         /\ submitted # <<>> /\ IsExit(Last(submitted)))
        => (appPc = "done" /\ ~raw /\ ~alt)

\* C11: when the device read reports end of stream the session loop ends
\* without logging an error and without sending on the output channel; when
\* it reports an error the loop logs it and ends; after either end there is
\* no further device write and no further device read.
C11_ReadEndStopsLoop ==
    [][ /\ (monEnd = "" /\ monEnd' = "eof")
            => (monPc' = "done" /\ errLog' = errLog /\ outLog' = outLog)
        /\ (monEnd = "" /\ monEnd' = "err")
            => (monPc' = "done" /\ "read error" \in errLog' /\ outLog' = outLog)
        /\ (monEnd \in {"eof", "err"})
            => UNCHANGED <<monLog, devLines, buf, outLog, errLog>> ]_vars

\* The loop ended on end of stream after a write and a line, with a message
\* still queued and part of a line in buf.
C11_Witness ==
    /\ monEnd = "eof"
    /\ inCh # <<>> /\ buf # <<>>
    /\ monLog # <<>> /\ outLog # <<>>

\* C12: the session loop stops only by a device end of stream, a device read
\* error or an exit message; a failed device write, a Stop message or a
\* failed send on a channel whose other end is closed never ends or aborts
\* it.
C12_LoopEndsOnlyByReadOrExit ==
    /\ monPc # "run" => monEnd \in {"eof", "err", "exit"}
    /\ monEnd = "exit" => to_uppercase(trim(Last(monLog).msg.text)) = EXIT
    /\ \A i \in 1..Len(monLog) :
           (~monLog[i].ok \/ monLog[i].msg.text = STOP)
               => (i < Len(monLog) \/ monEnd # "exit")

\* Rule i of REGSET matches s (i counted from 0, as in the source).
RuleMatches(i, s) == is_match(REGSET[i + 1], s)

\* C13: every line of the scrollback is drawn in the style paired with the
\* lowest-indexed of the nine rules that matches it, and in (White, no
\* modifier) when none matches; a line that matches both the ERROR/WARNING
\* rule (5) and the "key: value" rule (6) is drawn in the ERROR/WARNING
\* rule's style.
C13_FirstRuleStyles ==
    \A n \in 1..Len(output) :
        LET s == output[n] IN
        /\ \A i \in 0..(Len(REGSET) - 1) :
               (RuleMatches(i, s) /\ \A j \in 0..(i - 1) : ~RuleMatches(j, s))
                   => parse(s) = COLORSET[i + 1]
        /\ (\A i \in 0..(Len(REGSET) - 1) : ~RuleMatches(i, s))
               => parse(s) = <<"White", "empty">>
        /\ (RuleMatches(5, s) /\ RuleMatches(6, s))
               => parse(s) = <<"Red", "empty">>

\* C14: after any sequence of Insert-mode keys the cursor position is
\* between 0 and the number of characters of the input buffer, and every
\* insertion happens at a valid character position (String::insert never
\* panics).
C14_CursorWithinChars ==
    /\ 0 <= cursor_pos /\ cursor_pos <= Len(input)
    /\ ~(appPc = "panicked" /\ lastEv.code = "Char")

\* The messages the session loop has taken from the input channel, in the
\* order it took them.
Consumed == [i \in 1..Len(monLog) |-> monLog[i].msg]

RxSent(text) ==
    {i \in 1..Len(sentLog) :
         sentLog[i].src = "receiver" /\ sentLog[i].text = text}

\* C16: every interrupt the receiver handles forwards Stop; an Exit of the
\* receiver comes right after the Stop of the same interrupt; and repeated
\* interrupts within the spam window (one more than the tracker holds,
\* pressed within Window seconds while the session loop runs) put Exit on
\* the input channel.
C16_RepeatedInterruptsForwardExit ==
    /\ Cardinality(RxSent(STOP))
           = Cardinality({i \in 1..Len(rxInts) :
                              rxInts[i].handled /\ rxInts[i].open})
    /\ \A i \in RxSent(EXIT) : i > 1 /\ (i - 1) \in RxSent(STOP)
    /\ LET n == Len(rxInts)
       IN  (/\ n > TrackerCap
            /\ rxInts[n].t - rxInts[n - TrackerCap].t <= Window
            /\ monPc = "run")
               => RxSent(EXIT) # {}

\* The last Ctrl-C found the tracker full and its oldest timestamp more than
\* Window seconds old.  (A hard exit ends the loop, so before the fourth and
\* any later Ctrl-C the tracker held the three timestamps before it.)
StalePop ==
    /\ Len(ints) > TrackerCap
    /\ ints[Len(ints)].t - ints[Len(ints) - TrackerCap].t > Window

\* C17: an interrupt that arrives while the tracker is full and whose oldest
\* recorded timestamp is more than 3 seconds old leaves the tracker holding
\* only the new timestamp (length 1), and the hard exit does not fire.
C17_StalePopResetsTracker ==
    StalePop => /\ ~ints[Len(ints)].fired
                /\ spam_handler = <<ints[Len(ints)].t>>

\* C17 (amended): such an interrupt drops the oldest timestamp and records
\* the new one, so the tracker still holds three timestamps, the new one
\* and the two newest of before, and the hard exit does not fire.
C17_StalePopSlidesTracker ==
    StalePop => LET n == Len(ints)
                IN  /\ ~ints[n].fired
                    /\ appPc # "done"
                    /\ spam_handler = <<ints[n].t, ints[n - 1].t, ints[n - 2].t>>

\* A fourth Ctrl-C more than Window seconds after the first.
C17_Witness ==
    /\ StalePop
    /\ lastEv.code = "CtrlC"
    /\ Len(spam_handler) = TrackerCap

\* A line of the scrollback that came from the device: it ends with the line
\* feed read_until stopped at (a submitted text holds none).
IsDeviceLine(s) == s # <<>> /\ s[Len(s)] = LF
DeviceLines(out) == SelectSeq(out, IsDeviceLine)

\* C18: the scrollback is append-only; one pass of the render loop moves at
\* most one message from the output channel to the scrollback, at try_recv,
\* and goes on when the channel is empty; the device lines of the scrollback
\* are, in order, a prefix of the lines the session loop sent on the output
\* channel, and the channel holds the rest: none dropped, duplicated or
\* reordered.
C18_ScrollbackIsPrefixOfSent ==
    /\ [](/\ DeviceLines(output) = SubSeq(outLog, 1, Len(DeviceLines(output)))
          /\ DeviceLines(output) \o outCh = outLog)
    /\ [][ /\ Len(output') >= Len(output)
           /\ SubSeq(output', 1, Len(output)) = output
           /\ Len(DeviceLines(output')) <= Len(DeviceLines(output)) + 1
           /\ DeviceLines(output') # DeviceLines(output)
                  => (appPc = "recv" /\ appPc' = "poll")
           /\ (appPc = "recv" /\ outCh = <<>> /\ lastEv'.code = "TryRecv")
                  => (appPc' = "poll" /\ output' = output) ]_vars

\* Two different device lines reached the scrollback around a submitted
\* line, and the channel is empty.
C18_Witness ==
    /\ Len(output) = 3
    /\ IsDeviceLine(output[1]) /\ ~IsDeviceLine(output[2])
    /\ IsDeviceLine(output[3]) /\ output[1] # output[3]
    /\ outCh = <<>> /\ Len(outLog) = 2

\* Steps of the render loop for a key that has no arm in Normal mode.
IgnoredKeys == {"Enter", "Char", "Backspace", "CtrlC", "Left", "Right", "Other"}

\* C19: the input mode starts as Insert and only Escape changes it; in
\* Normal (navigation) mode a key other than Up, PageUp, Down, PageDown and
\* Escape leaves the input buffer, the cursor, the history, the scroll
\* state and the scrollback unchanged and sends nothing on the input
\* channel.
C19_OnlyEscChangesMode ==
    /\ input_mode = "Insert"
    /\ [][ /\ input_mode' # input_mode => (appPc = "poll" /\ lastEv'.code = "Esc")
           /\ (appPc = "poll" /\ input_mode = "Normal"
                   /\ lastEv'.code \in IgnoredKeys)
                  => /\ UNCHANGED <<input, cursor_pos, hist, index, scroll_pos,
                                    manual_scroll, output, inCh, sentLog,
                                    spam_handler, input_mode>>
                     /\ appPc' = "draw" ]_vars

\* Ctrl-C was pressed in Normal mode over a typed text: nothing was sent and
\* the text and the cursor are as they were.
C19_Witness ==
    /\ lastEv.code = "CtrlC" /\ lastEv.mode = "Normal"
    /\ input = <<"a">> /\ cursor_pos = 1
    /\ sentLog = <<>> /\ ints = <<>>

\* The vertical offset the frame is drawn with: self.scroll_pos as u16
\* (src/app.rs:333).
DrawnOffset == scroll_pos % 65536

\* C20: at every rendered frame the scroll offset used to draw lies between
\* 0 and max(0, content_length - viewport_height + 2), and while the
\* manual-scroll flag is false it equals that upper bound.
C20_OffsetWithinBound ==
    lastEv.code = "Draw" =>
        LET bound == Max(0, Len(output) - box_height + 2)
        IN  /\ 0 <= DrawnOffset /\ DrawnOffset <= bound
            /\ ~manual_scroll => DrawnOffset = bound

\* The texts of a sequence of lines, one after another.
RECURSIVE Flatten(_)
Flatten(ls) == IF ls = <<>> THEN <<>> ELSE Head(ls) \o Flatten(Tail(ls))

\* s holds one line feed, as its last element.
EndsAtFirstLF(s) ==
    /\ s # <<>> /\ s[Len(s)] = LF
    /\ \A i \in 1..(Len(s) - 1) : s[i] # LF

\* Bytes a dropped read left in buf are not lost: the messages sent followed
\* by buf are the bytes read from the device, and none is left behind in buf
\* when the loop ends at the end of the stream.
RaceKeepsBytes ==
    /\ Flatten(outLog) \o from_utf8_lossy(buf) = from_utf8_lossy(devLog)
    /\ monEnd = "eof" => buf = <<>>

\* C21: when a message of the input channel wins the select! race over a
\* partly read device line, the bytes read stay in buf and the read resumes
\* from them: every message sent on the output channel is the device bytes
\* from the end of the previous line up to and including the next line
\* feed, and no device byte is lost, duplicated or moved to another line.
C21_NoByteLostByRace ==
    /\ \A i \in 1..Len(outLog) : EndsAtFirstLF(outLog[i])
    /\ RaceKeepsBytes

=============================================================================
